---- MODULE Spec2Model ----
(***************************************************************************)
(* Model of the Vector-API Mongoose OS integration (src/mongoose-os/src/   *)
(* main.c): the dispatch routine send_vector_data, the two RPC handlers,   *)
(* the HTTP /vector handler, the periodic telemetry callback and the       *)
(* application entry point.                                                *)
(*                                                                         *)
(* Every handler runs to completion on the single event loop, so each is   *)
(* one action.  The observable outputs (log lines, MQTT publishes, RPC and *)
(* HTTP replies, samples handed to send_vector_data) are recorded for the  *)
(* event that produced them: each handler action overwrites them with what *)
(* that invocation emitted.                                                *)
(*                                                                         *)
(* Doubles are modelled in fixed point with Scale units per 1.0.           *)
(* A C string pointer is <<>> for NULL and <<s>> for a pointer to s.       *)
(***************************************************************************)
EXTENDS Integers, Sequences, FiniteSets, TLC

VARIABLES
    cfg,            \* the mgos_sys_config values of the vector_api section
    mqtt_connected, \* what mgos_mqtt_global_is_connected() returns
    started,        \* mgos_app_init has run (handlers are registered)
    crashed,        \* the firmware stopped on undefined behaviour
    timer,          \* the periodic telemetry timer
    event,          \* the event handled last
    dispatched,     \* samples passed to send_vector_data by that event
    log,            \* LOG lines written by that event
    published,      \* mgos_mqtt_pub calls made by that event
    replies,        \* replies written by that event
    nc_flags,       \* flags set on the HTTP connection by that event
    trace           \* the calls that event made, in program order

vars == <<cfg, mqtt_connected, started, crashed, timer, event, dispatched,
          log, published, replies, nc_flags, trace>>

outputs == <<dispatched, log, published, replies, nc_flags, trace>>

(***************************************************************************)
(* Bounds of the model                                                     *)
(***************************************************************************)
\* length of the longest configured device_id
MaxIdLen == 84
\* the clock and metrics readings are numbered 0..MaxTime
MaxTime == 1

(***************************************************************************)
(* Fixed-point numbers                                                     *)
(***************************************************************************)
\* units per 1.0: a multiple of 100, so that two-decimal values are exact,
\* and three times finer, so that rounding to two decimals never ties
Scale == 3 * 100

\* n / d rounded to the nearest integer, away from zero on a tie
RoundDiv(n, d) ==
    IF n >= 0 THEN (2 * n + d) \div (2 * d) ELSE -((2 * (-n) + d) \div (2 * d))

RECURSIVE SqrtBetween(_, _, _)
\* the largest r in lo..hi with r * r <= n
SqrtBetween(lo, hi, n) ==
    IF lo >= hi THEN lo
    ELSE LET mid == (lo + hi + 1) \div 2
         IN IF mid * mid <= n THEN SqrtBetween(mid, hi, n)
            ELSE SqrtBetween(lo, mid - 1, n)

\* sqrt of a fixed-point square (units Scale^2), to the nearest unit
sqrt(n) ==
    LET r == SqrtBetween(0, 46339, n)
    IN IF n - r * r > r THEN r + 1 ELSE r

\* printf "%.2f": the value in hundredths
Fmt2(a) == RoundDiv(a * 100, Scale)

\* a double converted to an integer type: truncation toward zero
Trunc(a) == IF a >= 0 THEN a \div Scale ELSE -((-a) \div Scale)

(***************************************************************************)
(* C strings                                                               *)
(***************************************************************************)
NULL == <<>>
Str(s) == <<s>>
strlen(p) == Len(p[1])

RECURSIVE Rep(_)
Rep(n) == IF n = 0 THEN "" ELSE "a" \o Rep(n - 1)

\* a variant that fills the whole buffer and leaves no room for the NUL
snprintf_no_nul(size, s) == IF Len(s) <= size THEN s ELSE SubSeq(s, 1, size)

\* snprintf into a buffer of size bytes: at most size - 1 characters are kept
snprintf(size, s) == IF Len(s) <= size - 1 THEN s ELSE SubSeq(s, 1, size - 1)

(***************************************************************************)
(* Values the environment supplies                                         *)
(***************************************************************************)
\* vector_api.device_id: unset, empty, a short name, names around the size
\* of the topic buffer
DeviceIds ==
    {NULL, Str(""), Str("dev1"), Str(Rep(MaxIdLen - 1)), Str(Rep(MaxIdLen))}

\* vector_api.server: unset, empty, configured
Servers == {NULL, Str(""), Str("a.b")}

\* vector_api.sync_interval, in seconds
SyncIntervals == {0, 5, 2147484}

\* the values each vector_api key can hold
ConfigValues ==
    [enable |-> BOOLEAN, server |-> Servers, device_id |-> DeviceIds,
     send_telemetry |-> BOOLEAN, sync_interval |-> SyncIntervals]

Configs ==
    [enable : ConfigValues.enable, server : ConfigValues.server,
     device_id : ConfigValues.device_id,
     send_telemetry : ConfigValues.send_telemetry,
     sync_interval : ConfigValues.sync_interval]

\* request bodies: the coordinates present, each a fixed-point number
EmptyBody == <<>>
Bodies ==
    { EmptyBody,
      ("y" :> 2 * Scale),
      ("x" :> 3 * Scale) @@ ("y" :> 4 * Scale),
      ("x" :> -(3 * Scale) \div 2) @@ ("z" :> 2 * Scale),
      ("x" :> Scale) @@ ("y" :> Scale) @@ ("z" :> Scale + 1) }

Methods == {"POST", "GET", "PUT"}
HttpEvents == {"MG_EV_HTTP_REQUEST", "MG_EV_CLOSE"}

\* what the device reads from its clock and metrics during one event:
\*   now     mg_time(), wall-clock seconds, a double
\*   uptime  mgos_uptime(), seconds, a double
\*   heap    mgos_get_free_heap_size(), bytes
\*   wifi    mgos_wifi_get_status() == MGOS_WIFI_IP_ACQUIRED
Reading(t) ==
    [now |-> t * Scale + (Scale \div 2),
     uptime |-> 150 * Scale * t + (Scale \div 2),
     heap |-> 35500 - 15500 * (t % 2),
     wifi |-> t % 2 = 0]
Readings == {Reading(t) : t \in 0..MaxTime}

(***************************************************************************)
(* calculate_magnitude and send_vector_data                                *)
(***************************************************************************)
vector_data(x, y, z, m) == [x |-> x, y |-> y, z |-> z, magnitude |-> m]

\* a variant that leaves the third axis out
calculate_magnitude_xy(v) == sqrt(v.x * v.x + v.y * v.y)

calculate_magnitude(v) == sqrt(v.x * v.x + v.y * v.y + v.z * v.z)

\* variants of the gate, each with one check changed or missing
vector_api_gate_no_enable(c) ==
    IF c.server = NULL \/ strlen(c.server) = 0 THEN "warn_return"
    ELSE "proceed"

vector_api_gate_null_only(c) ==
    IF ~c.enable THEN "return"
    ELSE IF c.server = NULL THEN "warn_return"
    ELSE "proceed"

vector_api_gate_silent(c) ==
    IF ~c.enable THEN "return"
    ELSE IF c.server = NULL \/ strlen(c.server) = 0 THEN "return"
    ELSE "proceed"

vector_api_gate_telemetry(c) ==
    IF ~c.enable \/ ~c.send_telemetry THEN "return"
    ELSE IF c.server = NULL \/ strlen(c.server) = 0 THEN "warn_return"
    ELSE "proceed"

\* the two early returns of send_vector_data
vector_api_gate(c) ==
    IF ~c.enable THEN "return"
    ELSE IF c.server = NULL \/ strlen(c.server) = 0 THEN "warn_return"
    ELSE "proceed"

\* device_id ? device_id : "unknown"
device_id_or_unknown(device_id) ==
    IF device_id # NULL THEN device_id[1] ELSE "unknown"

\* the record json_printf writes into fb: %Q of the device id, %.2f of the
\* four numbers, %lu of the time cast to unsigned long
json_printf_record(device_id, v, now) ==
    [device_id |-> device_id_or_unknown(device_id),
     vector |-> [x |-> Fmt2(v.x), y |-> Fmt2(v.y), z |-> Fmt2(v.z),
                 magnitude |-> Fmt2(v.magnitude)],
     timestamp |-> Trunc(now)]

\* char topic[100]; snprintf(topic, sizeof(topic), "vector-api/%s/data", ...)
TopicSize == 100
mqtt_topic(device_id) ==
    snprintf(TopicSize,
             "vector-api/" \o device_id_or_unknown(device_id) \o "/data")

LogLine(level, text) == [level |-> level, text |-> text]

\* a variant that publishes without asking whether the link is up
mqtt_pub_always(connected, device_id, fb) ==
    << [topic |-> "vector-api/" \o device_id_or_unknown(device_id) \o "/data",
        payload |-> fb, qos |-> 1, retain |-> FALSE] >>

\* mgos_mqtt_pub(topic, fb.buf, fb.len, 1, false), when connected
mqtt_pub(connected, device_id, fb) ==
    IF connected
    THEN << [topic |-> mqtt_topic(device_id), payload |-> fb,
             qos |-> 1, retain |-> FALSE] >>
    ELSE << >>

\* a variant that encodes the struct as the producer filled it
fill_magnitude_keep(v) == v

\* v->magnitude = calculate_magnitude(v)
fill_magnitude(v) == [v EXCEPT !.magnitude = calculate_magnitude(v)]

\* send_vector_data(&v): the struct as the call leaves it, what the call
\* logged and published, and the calls it made, in order
send_vector_data(v, c, connected, now) ==
    LET gate == vector_api_gate(c)
    IN IF gate = "return"
       THEN [v |-> v, log |-> << >>, published |-> << >>, steps |-> << >>]
       ELSE IF gate = "warn_return"
       THEN [v |-> v,
             log |-> << LogLine("LL_WARN",
                                << "Vector API server not configured" >>) >>,
             published |-> << >>,
             steps |-> << "LOG" >>]
       ELSE LET v2 == fill_magnitude(v)
                fb == json_printf_record(c.device_id, v2, now)
                pub == mqtt_pub(connected, c.device_id, fb)
            IN [v |-> v2,
                log |-> << LogLine("LL_INFO",
                                   << "Sending vector data: ", fb >>) >>,
                published |-> pub,
                steps |-> << "calculate_magnitude", "json_printf", "LOG",
                             "mgos_mqtt_global_is_connected" >>
                          \o (IF pub = << >> THEN << >>
                              ELSE << "mgos_mqtt_pub" >>)]

(***************************************************************************)
(* Request parsing and replies                                             *)
(***************************************************************************)
\* a variant that rejects a body with a coordinate missing
json_scanf_strict(body, x, y, z) ==
    IF DOMAIN body = {"x", "y", "z"}
    THEN [x |-> body["x"], y |-> body["y"], z |-> body["z"]]
    ELSE [x |-> x, y |-> y, z |-> z]

\* json_scanf(..., "{x: %lf, y: %lf, z: %lf}", &x, &y, &z): a key that is
\* present overwrites its variable, an absent one leaves it alone
json_scanf(body, x, y, z) ==
    [x |-> IF "x" \in DOMAIN body THEN body["x"] ELSE x,
     y |-> IF "y" \in DOMAIN body THEN body["y"] ELSE y,
     z |-> IF "z" \in DOMAIN body THEN body["z"] ELSE z]

\* a variant that replies with the magnitude field of the struct
vector_create_reply_stale(x, y, z, v) ==
    [x |-> Fmt2(x), y |-> Fmt2(y), z |-> Fmt2(z),
     magnitude |-> Fmt2(v.magnitude)]

\* mg_rpc_send_responsef(ri, "{result: {x: %.2f, ...}}", x, y, z,
\*                       calculate_magnitude(&v))
vector_create_reply(x, y, z, v) ==
    [x |-> Fmt2(x), y |-> Fmt2(y), z |-> Fmt2(z),
     magnitude |-> Fmt2(calculate_magnitude(v))]

\* the body of the HTTP 200 reply to a POST
http_post_reply(v) ==
    [status |-> "ok", magnitude |-> Fmt2(calculate_magnitude(v))]

\* the body of the HTTP 200 reply to any other method
http_descriptor_reply(device_id) ==
    [status |-> "Vector API Device", device_id |-> device_id]

\* what "%s" prints for a pointer; a null pointer is undefined behaviour:
\* the C library prints "(null)" or the firmware stops ("crash")
printf_s(p) == IF p # NULL THEN {p[1]} ELSE {"(null)", "crash"}

(***************************************************************************)
(* The initial state: the firmware is loaded, mgos_app_init has not run    *)
(***************************************************************************)
Event(kind, ev, method, args) ==
    [kind |-> kind, ev |-> ev, method |-> method, args |-> args]

\* the handler leaves the struct, the log, the broker and the peer alone
NoOutput ==
    /\ dispatched' = << >>
    /\ log' = << >>
    /\ published' = << >>
    /\ replies' = << >>
    /\ nc_flags' = {}
    /\ trace' = << >>

Init ==
    /\ cfg \in Configs
    /\ mqtt_connected \in BOOLEAN
    /\ started = FALSE
    /\ crashed = FALSE
    /\ timer = [state |-> "Idle", interval_ms |-> 0]
    /\ event = Event("none", "", "", EmptyBody)
    /\ dispatched = << >>
    /\ log = << >>
    /\ published = << >>
    /\ replies = << >>
    /\ nc_flags = {}
    /\ trace = << >>

(***************************************************************************)
(* mgos_app_init                                                           *)
(***************************************************************************)
INT_MAX == 2147483647

\* sync_interval * 1000 in int arithmetic.  A product beyond INT_MAX is
\* undefined behaviour: the build wraps modulo 2^32 or traps.
\* (for 0 < a * b < 2^32 the wrapped value is a * b - 2^32)
int_mul_overflows(a, b) == a > 0 /\ b > 0 /\ a > INT_MAX \div b
int_mul_wrapped(a, b) ==
    LET q == INT_MAX \div b
    IN (-INT_MAX - 1) + ((a - q) * b - (INT_MAX - q * b) - 1)
int_mul(a, b) ==
    IF int_mul_overflows(a, b) THEN {int_mul_wrapped(a, b)} ELSE {a * b}
int_mul_traps(a, b) ==
    IF int_mul_overflows(a, b) THEN BOOLEAN ELSE {FALSE}

\* a variant that also arms the timer for an interval of 0
set_timer_nonneg(t, sync_interval, ms) ==
    IF sync_interval >= 0
    THEN [state |-> "Armed", interval_ms |-> ms]
    ELSE t

\* mgos_set_timer(sync_interval * 1000, MGOS_TIMER_REPEAT, telemetry_timer_cb)
set_timer(t, sync_interval, ms) ==
    IF sync_interval > 0
    THEN [state |-> "Armed", interval_ms |-> ms]
    ELSE t

mgos_app_init ==
    /\ ~started /\ ~crashed
    /\ \E ms \in int_mul(cfg.sync_interval, 1000),
          trap \in int_mul_traps(cfg.sync_interval, 1000),
          sv \in printf_s(cfg.server),
          dv \in printf_s(cfg.device_id) :
         LET starting == LogLine("LL_INFO",
                 << "Vector-API Mongoose.OS Integration Starting..." >>)
             done == LogLine("LL_INFO",
                 << "Vector-API integration initialized" >>)
             registered == << "LOG", "mg_rpc_add_handler",
                              "mg_rpc_add_handler",
                              "mgos_register_http_endpoint" >>
             armed == IF cfg.sync_interval > 0 THEN << "mgos_set_timer" >>
                      ELSE << >>
         IN IF cfg.sync_interval > 0 /\ trap
            THEN /\ crashed' = TRUE
                 /\ log' = << starting >>
                 /\ trace' = registered
                 /\ UNCHANGED <<started, timer>>
            ELSE /\ timer' = set_timer(timer, cfg.sync_interval, ms)
                 /\ IF sv = "crash"
                    THEN /\ crashed' = TRUE
                         /\ log' = << starting, done >>
                         /\ UNCHANGED started
                    ELSE IF dv = "crash"
                    THEN /\ crashed' = TRUE
                         /\ log' = << starting, done,
                                LogLine("LL_INFO", << "Server: ", sv >>) >>
                         /\ UNCHANGED started
                    ELSE /\ started' = TRUE
                         /\ log' = << starting, done,
                                LogLine("LL_INFO", << "Server: ", sv >>),
                                LogLine("LL_INFO", << "Device ID: ", dv >>) >>
                         /\ UNCHANGED crashed
                 /\ trace' = registered \o armed
                              \o [i \in 1..(Len(log') - 1) |-> "LOG"]
    /\ event' = Event("mgos_app_init", "", "", EmptyBody)
    /\ dispatched' = << >>
    /\ published' = << >>
    /\ replies' = << >>
    /\ nc_flags' = {}
    /\ UNCHANGED <<cfg, mqtt_connected>>

(***************************************************************************)
(* The RPC handlers                                                        *)
(***************************************************************************)
vector_create_handler ==
    /\ started /\ ~crashed
    /\ \E args \in Bodies, rd \in Readings :
         LET p == json_scanf(args, 0, 0, 0)
             v == vector_data(p.x, p.y, p.z, 0)
         IN \E r \in {send_vector_data(v, cfg, mqtt_connected, rd.now)} :
            /\ event' = Event("Vector.Create", "", "", args)
            /\ dispatched' = << v >>
            /\ log' = r.log
            /\ published' = r.published
            /\ replies' = << vector_create_reply(p.x, p.y, p.z, r.v) >>
            /\ nc_flags' = {}
            /\ trace' = << "json_scanf" >> \o r.steps
                         \o << "mg_rpc_send_responsef" >>
    /\ UNCHANGED <<cfg, mqtt_connected, started, crashed, timer>>

\* a variant that reports the telemetry switch as vector_api_enabled
status_reply_telemetry(uptime, free_ram, wifi_connected, c) ==
    [uptime |-> Trunc(uptime), free_ram |-> free_ram,
     wifi_connected |-> wifi_connected,
     vector_api_enabled |-> c.send_telemetry, device_id |-> c.device_id]

\* the snapshot sent by status_handler; %Q prints a null device_id as null
status_reply(uptime, free_ram, wifi_connected, c) ==
    [uptime |-> Trunc(uptime), free_ram |-> free_ram,
     wifi_connected |-> wifi_connected,
     vector_api_enabled |-> c.enable, device_id |-> c.device_id]

status_handler ==
    /\ started /\ ~crashed
    /\ \E rd \in Readings :
         replies' = << status_reply(rd.uptime, rd.heap, rd.wifi, cfg) >>
    /\ event' = Event("Device.Status", "", "", EmptyBody)
    /\ dispatched' = << >>
    /\ log' = << >>
    /\ published' = << >>
    /\ nc_flags' = {}
    /\ trace' = << "mg_rpc_send_responsef" >>
    /\ UNCHANGED <<cfg, mqtt_connected, started, crashed, timer>>

(***************************************************************************)
(* The periodic telemetry callback                                         *)
(***************************************************************************)
\* { free heap / 1000.0, uptime / 100.0, wifi ? 100.0 : 0.0, 0 }
telemetry_vector(heap, uptime, wifi) ==
    vector_data(RoundDiv(heap * Scale, 1000), RoundDiv(uptime, 100),
                IF wifi THEN 100 * Scale ELSE 0, 0)

\* a variant without the send_telemetry check
telemetry_samples_ungated(c, heap, uptime, wifi) ==
    << telemetry_vector(heap, uptime, wifi) >>

\* the samples telemetry_timer_cb hands to send_vector_data
telemetry_samples(c, heap, uptime, wifi) ==
    IF ~c.send_telemetry THEN << >>
    ELSE << telemetry_vector(heap, uptime, wifi) >>

telemetry_timer_cb ==
    /\ started /\ ~crashed
    /\ timer.state = "Armed"
    /\ \E rd \in Readings :
         LET vs == telemetry_samples(cfg, rd.heap, rd.uptime, rd.wifi)
         IN /\ dispatched' = vs
            /\ IF vs = << >>
               THEN /\ log' = << >>
                    /\ published' = << >>
                    /\ trace' = << >>
               ELSE \E r \in {send_vector_data(vs[1], cfg, mqtt_connected,
                                                rd.now)} :
                       /\ log' = r.log
                       /\ published' = r.published
                       /\ trace' = r.steps
    /\ event' = Event("timer", "", "", EmptyBody)
    /\ replies' = << >>
    /\ nc_flags' = {}
    /\ UNCHANGED <<cfg, mqtt_connected, started, crashed, timer>>

(***************************************************************************)
(* The HTTP /vector handler                                                *)
(***************************************************************************)
vector_http_handler ==
    /\ started /\ ~crashed
    /\ \E ev \in HttpEvents :
         IF ev # "MG_EV_HTTP_REQUEST"
         THEN /\ event' = Event("http", ev, "", EmptyBody)
              /\ NoOutput
              /\ UNCHANGED crashed
         ELSE \E method \in Methods :
            IF method = "POST"
            THEN \E body \in Bodies, rd \in Readings :
                    LET p == json_scanf(body, 0, 0, 0)
                        v == vector_data(p.x, p.y, p.z, 0)
                    IN \E r \in {send_vector_data(v, cfg, mqtt_connected,
                                                  rd.now)} :
                       /\ event' = Event("http", ev, method, body)
                       /\ dispatched' = << v >>
                       /\ log' = r.log
                       /\ published' = r.published
                       /\ replies' = << http_post_reply(r.v) >>
                       /\ nc_flags' = {"MG_F_SEND_AND_CLOSE"}
                       /\ trace' = << "json_scanf" >> \o r.steps
                                    \o << "mg_printf", "MG_F_SEND_AND_CLOSE" >>
                       /\ UNCHANGED crashed
            ELSE \E d \in printf_s(cfg.device_id) :
                 \* hm->body is not read on this path
                 /\ event' = Event("http", ev, method, EmptyBody)
                 /\ IF d = "crash"
                    THEN NoOutput /\ crashed' = TRUE
                    ELSE /\ dispatched' = << >>
                         /\ log' = << >>
                         /\ published' = << >>
                         /\ replies' = << http_descriptor_reply(d) >>
                         /\ nc_flags' = {"MG_F_SEND_AND_CLOSE"}
                         /\ trace' = << "mg_printf", "MG_F_SEND_AND_CLOSE" >>
                         /\ UNCHANGED crashed
    /\ UNCHANGED <<cfg, mqtt_connected, started, timer>>

(***************************************************************************)
(* The collaborators: the MQTT link and the configuration store            *)
(***************************************************************************)
\* the broker link comes up or goes down
mqtt_link_change ==
    /\ ~crashed
    /\ mqtt_connected' = ~mqtt_connected
    /\ event' = Event("mqtt", "", "", EmptyBody)
    /\ NoOutput
    /\ UNCHANGED <<cfg, started, crashed, timer>>

\* the configuration store is given a new value for one vector_api key
sys_config_set ==
    /\ ~crashed
    /\ \E k \in DOMAIN cfg :
         \E val \in ConfigValues[k] \ {cfg[k]} :
            cfg' = [cfg EXCEPT ![k] = val]
    /\ event' = Event("config", "", "", EmptyBody)
    /\ NoOutput
    /\ UNCHANGED <<mqtt_connected, started, crashed, timer>>

Next ==
    \/ mgos_app_init
    \/ vector_create_handler
    \/ status_handler
    \/ telemetry_timer_cb
    \/ vector_http_handler
    \/ mqtt_link_change
    \/ sys_config_set

Spec == Init /\ [][Next]_vars

(***************************************************************************)
(* Properties                                                              *)
(*                                                                         *)
(* The handlers leave cfg and mqtt_connected alone and every other action  *)
(* clears the outputs, so in a state whose outputs are not empty cfg and   *)
(* mqtt_connected are the values the handler read.                         *)
(***************************************************************************)
\* the event called send_vector_data
Dispatching == Len(dispatched) > 0

\* the event was a Vector.Create request or an HTTP POST to /vector
RequestEvent ==
    \/ event.kind = "Vector.Create"
    \/ event.kind = "http" /\ event.ev = "MG_EV_HTTP_REQUEST"
                           /\ event.method = "POST"

ServerConfigured == cfg.server \notin {NULL, Str("")}

\* the vector part of the record for sample v: two decimals of x, y, z and of
\* sqrt(x^2 + y^2 + z^2)
EncodedVector(v) ==
    [x |-> Fmt2(v.x), y |-> Fmt2(v.y), z |-> Fmt2(v.z),
     magnitude |-> Fmt2(sqrt(v.x * v.x + v.y * v.y + v.z * v.z))]

\* rec is the complete record of sample v under the configuration in force
IsRecordOf(rec, v) ==
    /\ rec.device_id = (IF cfg.device_id = NULL THEN "unknown"
                        ELSE cfg.device_id[1])
    /\ rec.vector = EncodedVector(v)
    /\ \E rd \in Readings : rec.timestamp = Trunc(rd.now)

WarnLine == LogLine("LL_WARN", << "Vector API server not configured" >>)

\* C1: a dispatch call made while enable is false publishes nothing, logs
\* nothing (no record, no warning, also with no server configured) and
\* leaves the struct as it was passed.
C1_DisabledNoEffect ==
    (Dispatching /\ ~cfg.enable) =>
        /\ published = << >>
        /\ log = << >>
        /\ \A rd \in Readings :
              send_vector_data(dispatched[1], cfg, mqtt_connected, rd.now).v
                  = dispatched[1]

C1_Witness ==
    /\ Dispatching /\ ~cfg.enable
    /\ cfg.server = NULL /\ mqtt_connected
    /\ event.kind = "Vector.Create"

\* C2: a dispatch call made while enable is true and the server is NULL or
\* empty publishes nothing and logs exactly the warning, no record.
C2_NoServerWarns ==
    (Dispatching /\ cfg.enable /\ ~ServerConfigured) =>
        /\ published = << >>
        /\ log = << WarnLine >>

C2_Witness ==
    /\ Dispatching /\ cfg.enable /\ cfg.server = Str("")
    /\ mqtt_connected /\ log = << WarnLine >>

\* C3: a dispatch call made while enable is true, the server is configured
\* and the link is up publishes exactly once, the payload being the encoded
\* record, on topic "vector-api/<device_id>/data", or
\* "vector-api/unknown/data" when device_id is NULL.
C3_PublishOnceOnDeviceTopic ==
    (Dispatching /\ cfg.enable /\ ServerConfigured /\ mqtt_connected) =>
        /\ Len(published) = 1
        /\ IsRecordOf(published[1].payload, dispatched[1])
        /\ published[1].topic =
              "vector-api/"
              \o (IF cfg.device_id = NULL THEN "unknown" ELSE cfg.device_id[1])
              \o "/data"

\* C4: a dispatch call made while enable is true, the server is configured
\* and the link is down publishes nothing and logs one info line that
\* carries the complete encoded record.
C4_DisconnectedStillLogged ==
    (Dispatching /\ cfg.enable /\ ServerConfigured /\ ~mqtt_connected) =>
        /\ published = << >>
        /\ Len(log) = 1
        /\ log[1].level = "LL_INFO"
        /\ Len(log[1].text) = 2
        /\ IsRecordOf(log[1].text[2], dispatched[1])

C4_Witness ==
    /\ Dispatching /\ cfg.enable /\ ServerConfigured /\ ~mqtt_connected
    /\ event.kind = "timer"
    /\ Len(log) = 1 /\ published = << >>

\* C5 as stated: every dispatch call writes exactly one log line, whatever
\* its outcome.
C5_OneLogLineAlways ==
    Dispatching => Len(log) = Len(dispatched)

\* C5 as amended: a dispatch call made while enable is true writes exactly
\* one log line (the warning when no server is configured, else the info
\* line with the record, published or not); one made while enable is false
\* writes none.
C5_OneLogLineWhenEnabled ==
    Dispatching =>
        /\ cfg.enable => Len(log) = Len(dispatched)
        /\ cfg.enable /\ ~ServerConfigured => log[1].level = "LL_WARN"
        /\ cfg.enable /\ ServerConfigured => log[1].level = "LL_INFO"
        /\ ~cfg.enable => Len(log) = 0

C5_Witness ==
    /\ Dispatching /\ cfg.enable /\ ~ServerConfigured
    /\ event.kind = "http" /\ Len(log) = 1

\* C6: when device_id is NULL or empty the device_id of the record and the
\* device segment of the topic are "unknown"; when it is a non-empty string
\* they are that string.
C6_UnknownWhenAbsentOrEmpty ==
    (Dispatching /\ Len(published) = 1) =>
        LET id == IF cfg.device_id \in {NULL, Str("")} THEN "unknown"
                  ELSE cfg.device_id[1]
        IN /\ published[1].payload.device_id = id
           /\ published[1].topic = "vector-api/" \o id \o "/data"
\* the coordinates a request body yields: each key that is present, 0 for
\* each that is absent
BodySample(body) ==
    [x |-> IF "x" \in DOMAIN body THEN body["x"] ELSE 0,
     y |-> IF "y" \in DOMAIN body THEN body["y"] ELSE 0,
     z |-> IF "z" \in DOMAIN body THEN body["z"] ELSE 0,
     magnitude |-> 0]

\* the reply the handler of the event owes to coordinates s: a function of
\* s and of nothing else
ReplyFor(s) ==
    IF event.kind = "Vector.Create"
    THEN EncodedVector(s)
    ELSE [status |-> "ok", magnitude |-> EncodedVector(s).magnitude]

\* the reply the handler of the event would send had the dispatch run under
\* configuration c and link state m
ReplyUnder(s, c, m, now) ==
    LET v == send_vector_data(s, c, m, now).v
    IN IF event.kind = "Vector.Create"
       THEN vector_create_reply(s.x, s.y, s.z, v)
       ELSE http_post_reply(v)

\* C7: a Vector.Create request and an HTTP POST get exactly one reply, which
\* is a function of the request coordinates alone: it is the reply the same
\* request gets with enable, the server and the link state changed so that
\* the dispatch is sent in one run and skipped in the other.
C7_ReplyIndependentOfDispatch ==
    RequestEvent =>
        /\ Len(replies) = 1
        /\ replies[1] = ReplyFor(BodySample(event.args))
        /\ \A rd \in Readings, m \in BOOLEAN :
              /\ replies[1] =
                    ReplyUnder(BodySample(event.args),
                               [cfg EXCEPT !.enable = ~cfg.enable], m, rd.now)
              /\ replies[1] =
                    ReplyUnder(BodySample(event.args),
                               [cfg EXCEPT !.server = NULL], m, rd.now)
              /\ replies[1] =
                    ReplyUnder(BodySample(event.args),
                               [cfg EXCEPT !.enable = TRUE,
                                           !.server = Str("a.b")],
                               m, rd.now)

\* a request whose dispatch was skipped, answered with a non-zero magnitude
C7_Witness ==
    /\ RequestEvent /\ ~cfg.enable /\ log = << >> /\ published = << >>
    /\ Len(replies) = 1 /\ replies[1].magnitude = 5 * 100

\* C8: in both request handlers each coordinate absent from the body is 0
\* and each present one keeps its value; the request is not rejected: that
\* sample is dispatched and answered ({"y": 2} gives (0, 2, 0), magnitude 2).
C8_AbsentCoordinatesAreZero ==
    RequestEvent =>
        /\ dispatched = << BodySample(event.args) >>
        /\ Len(replies) = 1
        /\ replies[1] = ReplyFor(BodySample(event.args))
        /\ event.args = ("y" :> 2 * Scale) =>
              /\ dispatched = << vector_data(0, 2 * Scale, 0, 0) >>
              /\ replies[1].magnitude = 2 * 100
              /\ event.kind = "Vector.Create" =>
                    replies[1] = [x |-> 0, y |-> 2 * 100, z |-> 0,
                                  magnitude |-> 2 * 100]

C8_Witness ==
    /\ RequestEvent /\ event.kind = "http"
    /\ event.args = ("y" :> 2 * Scale)
    /\ dispatched = << vector_data(0, 2 * Scale, 0, 0) >>
    /\ replies = << [status |-> "ok", magnitude |-> 2 * 100] >>

\* C9: a timer tick with send_telemetry false makes no dispatch call, so it
\* logs and publishes nothing, whatever enable, the server and the link are;
\* a tick with send_telemetry true makes exactly one dispatch call.
C9_TickGatedBySendTelemetry ==
    event.kind = "timer" =>
        /\ ~cfg.send_telemetry =>
              dispatched = << >> /\ log = << >> /\ published = << >>
        /\ cfg.send_telemetry => Len(dispatched) = 1

C9_Witness ==
    /\ event.kind = "timer" /\ ~cfg.send_telemetry
    /\ cfg.enable /\ ServerConfigured /\ mqtt_connected
    /\ dispatched = << >>

\* C10: send_telemetry gates only the periodic path: the dispatch of a
\* Vector.Create request or an HTTP POST logs and publishes what it would
\* with send_telemetry negated, and with enable true, the server configured
\* and the link up it logs and publishes once.
C10_RequestsIgnoreSendTelemetry ==
    RequestEvent =>
        /\ Len(dispatched) = 1
        /\ \E rd \in Readings :
              LET r == send_vector_data(
                           dispatched[1],
                           [cfg EXCEPT !.send_telemetry = ~cfg.send_telemetry],
                           mqtt_connected, rd.now)
              IN log = r.log /\ published = r.published
        /\ (cfg.enable /\ ServerConfigured /\ mqtt_connected) =>
              Len(log) = 1 /\ Len(published) = 1

C10_Witness ==
    /\ RequestEvent /\ ~cfg.send_telemetry
    /\ cfg.enable /\ ServerConfigured /\ mqtt_connected
    /\ Len(log) = 1 /\ Len(published) = 1
IsNearestRoot(m, n) ==
    /\ m >= 0
    /\ n <= m * m + m
    /\ IF m = 0 THEN n = 0 ELSE n > m * m - m

\* the log line of the event carries a record
RecordLogged == Len(log) = 1 /\ log[1].level = "LL_INFO"

\* C12: the magnitude calculate_magnitude gives a dispatched sample is
\* sqrt(x^2 + y^2 + z^2) and is not negative; it is the magnitude of the
\* record and of the reply; sample (3, 4, 0) yields 5 in both.
C12_MagnitudeIsEuclidean ==
    Dispatching =>
        LET v == dispatched[1]
            n == v.x * v.x + v.y * v.y + v.z * v.z
            m == calculate_magnitude(v)
        IN /\ IsNearestRoot(m, n)
           /\ RecordLogged =>
                 /\ log[1].text[2].vector.magnitude = Fmt2(m)
                 /\ log[1].text[2].vector.magnitude >= 0
           /\ Len(published) = 1 =>
                 published[1].payload.vector.magnitude = Fmt2(m)
           /\ RequestEvent =>
                 replies[1].magnitude = Fmt2(m) /\ replies[1].magnitude >= 0
           /\ (v.x = 3 * Scale /\ v.y = 4 * Scale /\ v.z = 0) =>
                 /\ m = 5 * Scale
                 /\ Len(published) = 1 =>
                       published[1].payload.vector =
                          [x |-> 3 * 100, y |-> 4 * 100, z |-> 0,
                           magnitude |-> 5 * 100]
                 /\ RequestEvent => replies[1].magnitude = 5 * 100

C12_Witness ==
    /\ event.kind = "Vector.Create"
    /\ dispatched = << vector_data(3 * Scale, 4 * Scale, 0, 0) >>
    /\ cfg.device_id = Str("dev1") /\ cfg.server = Str("a.b")
    /\ Len(published) = 1
    /\ published[1].payload.vector.magnitude = 5 * 100
    /\ replies[1].magnitude = 5 * 100

HttpRequestEvent == event.kind = "http" /\ event.ev = "MG_EV_HTTP_REQUEST"

\* C13: for every HTTP request event, whatever the method, the handler
\* writes its reply and then, as its last step, marks the connection
\* send-and-close.
C13_ReplyThenClose ==
    HttpRequestEvent =>
        /\ Len(replies) = 1
        /\ nc_flags = {"MG_F_SEND_AND_CLOSE"}
        /\ Len(trace) >= 2
        /\ trace[Len(trace) - 1] = "mg_printf"
        /\ trace[Len(trace)] = "MG_F_SEND_AND_CLOSE"

\* C14: Device.Status is a pure read: each invocation sends exactly one
\* reply, a snapshot of the readings and of the configuration, calls
\* send_vector_data not at all, logs and publishes nothing, and leaves the
\* configuration, the timer and the link as they were.
C14_StatusIsPureRead ==
    [][ event'.kind = "Device.Status" =>
           /\ Len(replies') = 1
           /\ replies'[1].vector_api_enabled = cfg.enable
           /\ replies'[1].device_id = cfg.device_id
           /\ \E rd \in Readings :
                 /\ replies'[1].uptime = Trunc(rd.uptime)
                 /\ replies'[1].free_ram = rd.heap
                 /\ replies'[1].wifi_connected = rd.wifi
           /\ dispatched' = << >> /\ log' = << >> /\ published' = << >>
           /\ trace' = << "mg_rpc_send_responsef" >>
           /\ UNCHANGED <<cfg, timer, mqtt_connected, started, crashed>>
      ]_vars

C14_Witness ==
    /\ event.kind = "Device.Status" /\ Len(replies) = 1
    /\ cfg.enable /\ ~cfg.send_telemetry
    /\ ServerConfigured /\ mqtt_connected
    /\ timer.state = "Armed" /\ published = << >> /\ log = << >>

\* C15: an HTTP request whose method is not POST is answered with the
\* static descriptor holding device_id and calls send_vector_data and
\* publishes not at all; the HTTP handler dispatches if and only if the
\* method is POST.
C15_OnlyPostDispatches ==
    HttpRequestEvent =>
        /\ Dispatching <=> event.method = "POST"
        /\ event.method # "POST" =>
              /\ published = << >> /\ log = << >>
              /\ Len(replies) = 1
              /\ replies[1].status = "Vector API Device"
              /\ cfg.device_id # NULL =>
                    replies[1].device_id = cfg.device_id[1]

\* the calls of the event that send_vector_data makes past its gates
DispatchCalls ==
    SelectSeq(trace,
              LAMBDA c : c \in {"calculate_magnitude", "json_printf", "LOG",
                                "mgos_mqtt_global_is_connected",
                                "mgos_mqtt_pub"})

\* C16: a dispatch call that passes both gates computes the magnitude,
\* encodes the record, logs it, asks for the link state and publishes, in
\* that order; the magnitude of the record is the one computed from that
\* call's x, y, z, whatever magnitude the producer put in the struct; what
\* is published is what was logged.
C16_ComputeEncodeLogPublish ==
    (Dispatching /\ cfg.enable /\ ServerConfigured) =>
        /\ DispatchCalls =
              << "calculate_magnitude", "json_printf", "LOG",
                 "mgos_mqtt_global_is_connected" >>
              \o (IF mqtt_connected THEN << "mgos_mqtt_pub" >> ELSE << >>)
        /\ RecordLogged
        /\ log[1].text[2].vector = EncodedVector(dispatched[1])
        /\ \A m \in {0, 7 * Scale}, rd \in Readings :
              LET r == send_vector_data(
                           [dispatched[1] EXCEPT !.magnitude = m],
                           cfg, mqtt_connected, rd.now)
              IN r.log[1].text[2].vector = EncodedVector(dispatched[1])
        /\ mqtt_connected =>
              /\ Len(published) = 1
              /\ published[1].payload = log[1].text[2]

C16_Witness ==
    /\ Dispatching /\ cfg.enable /\ ServerConfigured /\ mqtt_connected
    /\ event.kind = "timer"
    /\ Len(published) = 1 /\ published[1].payload.vector.magnitude > 0
    /\ DispatchCalls[Len(DispatchCalls)] = "mgos_mqtt_pub"

\* the event dispatched a record that was logged and, the link being down,
\* not published
SkippedNotConnected == Dispatching /\ RecordLogged /\ published = << >>

\* C17: every event publishes at most as often as it calls send_vector_data,
\* which is at most once, so the publishes of a run never outnumber its
\* dispatch calls; a publish happens only in the dispatch of a Vector.Create
\* request, an HTTP POST or a tick with send_telemetry true, and carries
\* the record of that call's own sample; the event after a skipped dispatch
\* (the link coming back up included) publishes nothing but its own record.
C17_NoPublishOutsideDispatch ==
    [][ /\ Len(published') <= Len(dispatched')
        /\ Len(dispatched') <= 1
        /\ published' # << >> =>
              /\ \/ event'.kind = "Vector.Create"
                 \/ event'.kind = "http" /\ event'.method = "POST"
                 \/ event'.kind = "timer" /\ cfg'.send_telemetry
              /\ Len(log') = 1
              /\ published'[1].payload = log'[1].text[2]
              /\ published'[1].payload.vector = EncodedVector(dispatched'[1])
        /\ event'.kind \in {"mqtt", "config", "Device.Status",
                            "mgos_app_init"} =>
              published' = << >> /\ dispatched' = << >>
        /\ (SkippedNotConnected /\ event'.kind = "mqtt") =>
              mqtt_connected' /\ published' = << >>
      ]_vars

\* the link is back up and nothing was published
C17_Witness ==
    /\ event.kind = "mqtt" /\ mqtt_connected /\ started
    /\ cfg.enable /\ ServerConfigured
    /\ published = << >> /\ dispatched = << >>

\* C18: the topic is built in a 100-byte buffer: for a device_id of at most
\* 83 characters it is "vector-api/" + device_id + "/data"; for a longer
\* one it is the first 99 characters of that string; the device_id of the
\* payload is not cut.
C18_TopicCutAt99 ==
    (Len(published) = 1 /\ cfg.device_id # NULL) =>
        LET id == cfg.device_id[1]
            full == "vector-api/" \o id \o "/data"
        IN /\ Len(id) <= 83 => published[1].topic = full
           /\ Len(id) > 83 =>
                 /\ published[1].topic = SubSeq(full, 1, 99)
                 /\ Len(published[1].topic) = 99
           /\ published[1].payload.device_id = id

C18_Witness ==
    /\ Len(published) = 1 /\ cfg.device_id # NULL
    /\ Len(cfg.device_id[1]) > 83
    /\ Len(published[1].topic) = 99
    /\ Len(published[1].payload.device_id) > 83

\* C19: for every sync_interval > 0 the timer is armed with an interval of
\* exactly sync_interval * 1000 milliseconds.
C19_IntervalIsExact ==
    (event.kind = "mgos_app_init" /\ cfg.sync_interval > 0
        /\ timer.state = "Armed") =>
        /\ timer.interval_ms > 0
        /\ timer.interval_ms % 1000 = 0
        /\ timer.interval_ms \div 1000 = cfg.sync_interval

====
